---- MODULE Spec2Model ----
(***************************************************************************)
(* Model of the chat hub of src/chatroom_server.py (class ChatServer and   *)
(* the HTTP handlers built on it).                                         *)
(*                                                                         *)
(* ChatServer guards users, clients and waiting_users with one             *)
(* threading.Lock.  Every "with self.lock:" block is one atomic step of    *)
(* the model; the code between two such blocks (the unlocked read of       *)
(* self.running, the per-recipient loop of broadcast_message, the append   *)
(* loop of stop) is a step of its own, so that other callers may run       *)
(* between them.  Each caller is a thread with a program counter.          *)
(*                                                                         *)
(* The wall clock (datetime.now / time.time) is a counter.  It advances    *)
(* whenever broadcast_message builds an envelope, so that the timestamp of *)
(* an envelope also identifies it; mark_user_waiting reads it as it is.    *)
(***************************************************************************)
EXTENDS Naturals, Integers, Sequences, FiniteSets, TLC

\* ------------------------------------------------------------------ bounds
MaxClock == 2

\* loop turns without mail after which the stream of an idle client is due to end
\* (stands for the 60 one-second turns of the reference bound)
IdleBound == 2

\* the wall clock moves WallStep seconds at a time and stops at MaxWall
WallStep == 5
MaxWall == 10

\* check_waiting_users: seconds a user waits before the others are reminded
THRESHOLD == 10

Names == {"A", "B"}
Threads == {"t1", "t2"}
Contents == {"hi"}

\* HTTP status codes the handlers answer with
HTTP_200_OK == 200
HTTP_404_NOT_FOUND == 404
HTTP_503_SERVICE_UNAVAILABLE == 503

\* AsyncChatRoom.max_append_length, the length of the draft suffix shown in a
\* truncation notice
max_append_length == 200

PreviewLength == 50

\* the de-duplication set is cleared when it holds more keys than this (1000
\* in the source), a draft holds at most MaxSegments segments, the local queue
\* at most MaxQueue entries
ProcessedLimit == 3

MaxSegments == 2

MaxQueue == 2

\* the caller stops when the de-duplication set holds MaxKeys keys
MaxKeys == 4

\* a call of check gives up the model after MaxCycles cycles of its loop
MaxCycles == 3

VARIABLES
    clients,                 \* ChatServer.clients: username -> list of envelopes
    users,                   \* ChatServer.users: set of active usernames
    running,                 \* ChatServer.running
    waiting_users,           \* ChatServer.waiting_users: username -> wait start
    last_message_timestamp,  \* ChatServer.last_message_timestamp
    lock,                    \* ChatServer.lock: "free" or the thread holding it forever
    clock,                   \* the wall clock
    th,                      \* the request threads: what each runs and where it is
    resp,                    \* what the step just taken answered to its caller
    stop,                    \* ChatServer.stop: its position, current_users, timestamp
    sse,                     \* username -> the event_stream opened for it by /events
    wall,                    \* time.time(), in seconds
    room,                    \* one AsyncChatRoom: its fields and what its last call did
    delivered,               \* username -> every envelope get_messages has returned, in order
    completed                \* timestamp of a broadcast that has returned -> the clock
                             \* at its return and the users it was sent to

vars == <<clients, users, running, waiting_users, last_message_timestamp,
          lock, clock, th, resp, stop, sse, wall, room, delivered, completed>>

hub == <<clients, users, running, waiting_users, last_message_timestamp>>

history == <<delivered, completed>>

\* ----------------------------------------------------------------- helpers
\* AsyncChatRoom.username, and the names of the other participants it hears of
self_username == "A"

Peers == {"B", "AB"}

\* check: where a call of it is, its delay and first_time, the number of the
\* cycle of its loop and the number of announcements it has sent; once it has
\* returned (pc "idle"), what these were at the return
NoCheck == [pc |-> "idle", delay |-> 0, first_time |-> TRUE, cycle |-> 0,
            announced |-> 0]

\* the listener's end of the event stream: "first" until the stream fails,
\* "failed" until the listener has opened a new one, then "reopened"; the stamp
\* of the last envelope made before the failure, and the envelopes the hub
\* wrote to the stream after it had failed
NoChannel == [state |-> "first", since |-> 0, lost |-> <<>>]

\* AsyncChatRoom after __init__.  The fields of the object, then what its last
\* step was: the method, its text argument (for the listener the sender and the
\* content of the envelope), the hub's answer to its request, the requests it
\* issued, and the value it returned
NewRoom ==
    [draft_segments |-> <<>>, queue |-> <<>>, running |-> FALSE,
     processed_messages |-> {}, has_talking_stick |-> FALSE,
     call |-> "", sender |-> "", text |-> "", answer |-> "", posted |-> <<>>,
     returned |-> "", check |-> NoCheck, channel |-> NoChannel]

EmptyMap == <<>>

NoMsg == [sender |-> "", content |-> "", timestamp |-> 0]

NoResp == [op |-> "", name |-> "", status |-> 0, body |-> <<>>]

\* no event_stream has been opened for the name
NoStream == [pc |-> "none", messages |-> <<>>, idle |-> 0]

\* the locals of a caller; waiting, current_time and due are those of
\* check_waiting_users, since is the value of clock when its turn began
Idle == [op |-> "idle", pc |-> "idle", name |-> "", text |-> "", msg |-> NoMsg,
         current_users |-> {}, pending |-> {},
         waiting |-> EmptyMap, current_time |-> 0, due |-> {}, since |-> 0]

MapRemove(m, k) == [x \in DOMAIN m \ {k} |-> m[x]]

MapPut(m, k, v) == [x \in DOMAIN m \cup {k} |-> IF x = k THEN v ELSE m[x]]

\* the envelope broadcast_message builds
Envelope(sender, content, now) ==
    [sender |-> sender, content |-> content, timestamp |-> now]

LeftNotice(username) == username \o " has left the chat"

ClaimNotice(username) == username \o " has claimed the talking stick and wants to speak"

WaitingNotice(username) == username \o " is waiting for a response"

StillWaitingNotice(username) == username \o " is still waiting for a response"

ShutdownMessage(now) ==
    [sender |-> "Server", content |-> "Server shutting down...", timestamp |-> now]

\* ------------------------------------------------------- faulty variants
\* Wrong versions of operators defined below. Each property of the last
\* section is expected to fail when the operator it depends on is replaced by
\* its variant.

\* clears only the sender's own wait
ClearedWaitingOwnOnly(w, sender) ==
    IF sender \in DOMAIN w THEN MapRemove(w, sender) ELSE w

\* puts the message at the head of the queue
add_message_to_queue_at_head(cl, username, message) ==
    IF username \in DOMAIN cl
    THEN [cl EXCEPT ![username] = <<message>> \o @]
    ELSE cl

\* gives the sender no copy of its own message
add_message_to_queue_no_echo(cl, username, message) ==
    IF username \in DOMAIN cl /\ username # message.sender
    THEN [cl EXCEPT ![username] = Append(@, message)]
    ELSE cl

\* reminds only after more than THRESHOLD seconds
DueLater(w, current_time) == {u \in DOMAIN w : current_time - w[u] > THRESHOLD}

\* never re-adds the name
ReconnectedUsersNever(cl, us, username) == us

\* allocates a queue for a name that has none
DrainedClientsAllocating(cl, username) == MapPut(cl, username, <<>>)

\* leaves the wait of the name that unregisters
UnregisteredWaitingKept(w, us, username) == w

\* lets every name pass the user check
NotRegisteredNever(us, username) == FALSE

\* marks a name whether it is live or not
MarkedWaitingAlways(w, us, username, now) == MapPut(w, username, now)

\* clears the waiting users whoever the sender is
ClearedWaitingAlways(w, sender) == EmptyMap

\* leaves the name among the users
UnregisteredUsersKept(us, username) == us

\* sets the wait of the name whether it is still waiting or not
ResetWaitingAlways(w, username, current_time) == MapPut(w, username, current_time)

\* publishes the last segment alone
get_current_draft_last(segments) ==
    IF segments = <<>> THEN "" ELSE segments[Len(segments)]

\* clears the draft and keeps the talking stick
released_draft_only(c) == [c EXCEPT !.draft_segments = <<>>]

\* takes the talking stick whatever the hub answered
claimed_always(c, answer) == [c EXCEPT !.has_talking_stick = TRUE]

\* removes every segment
undone_all(segments) == <<>>

\* releases the talking stick and keeps the draft
released_stick_only(c) == [c EXCEPT !.has_talking_stick = FALSE]

\* announces in the first cycle too
announced_always(c, answer) ==
    [c EXCEPT !.answer = answer,
              !.check.announced = @ + 1,
              !.posted = Append(@, [path |-> "/check_event", username |-> "A",
                                    message |-> ""])]

\* ------------------------------------------------- ChatServer, lock regions
\* register_user, the part under the lock, when running
RegisteredUsers(us, username) == us \cup {username}

RegisteredClients(cl, us, username) ==
    IF username \notin us THEN MapPut(cl, username, <<>>) ELSE cl

\* add_message_to_queue
add_message_to_queue(cl, username, message) ==
    IF username \in DOMAIN cl
    THEN [cl EXCEPT ![username] = Append(@, message)]
    ELSE cl

\* get_messages: what it returns and what it leaves
get_messages(cl, username) ==
    IF username \notin DOMAIN cl THEN <<>> ELSE cl[username]

DrainedClients(cl, username) ==
    IF username \notin DOMAIN cl THEN cl ELSE [cl EXCEPT ![username] = <<>>]

\* get_users and get_waiting_users return copies
ListOf(S) == CHOOSE l \in [1..Cardinality(S) -> S] : {l[i] : i \in DOMAIN l} = S

get_users == ListOf(users)

get_waiting_users == waiting_users

\* broadcast_message, the lock region: current_users = list(self.users)
SnapshotUsers(us) == us

\* broadcast_message, the lock region: the waiting users it leaves
ClearedWaiting(w, sender) ==
    IF sender # "Server" /\ DOMAIN w # {} THEN EmptyMap ELSE w

StampedLast(l, us, sender, now) ==
    IF sender # "Server" /\ sender \in us THEN MapPut(l, sender, now) ELSE l

\* send, talking_stick, check_event: "if data.username not in chat_server.users"
NotRegistered(us, username) == username \notin us

\* events: "if username not in chat_server.users and chat_server.running"
AutoRegisters(us, run, username) == username \notin us /\ run

\* event_stream: what one turn of the loop yields for what get_messages returned
Frame(username, messages) ==
    IF messages # <<>>
    THEN [op |-> "data", name |-> username, status |-> HTTP_200_OK, body |-> messages]
    ELSE [op |-> "keepalive", name |-> username, status |-> HTTP_200_OK, body |-> <<>>]

\* check_waiting_users: the entries of its copy that get a reminder
Due(w, current_time) == {u \in DOMAIN w : current_time - w[u] >= THRESHOLD}

\* check_waiting_users: "if username in waiting_users: waiting_users[username] =
\* current_time"
ResetWaiting(w, username, current_time) ==
    IF username \in DOMAIN w THEN MapPut(w, username, current_time) ELSE w

\* mark_user_waiting
MarkedWaiting(w, us, username, now) ==
    IF username \in us THEN MapPut(w, username, now) ELSE w

\* reconnect, the lock region: the first branch re-adds a name that has a queue
ReconnectedUsers(cl, us, username) ==
    IF username \in DOMAIN cl /\ username \notin us THEN us \cup {username} ELSE us

\* reconnect, the second branch: register_user is called with the lock held, and
\* threading.Lock is not reentrant
ReconnectBlocks(cl, us, username) ==
    /\ ~(username \in DOMAIN cl /\ username \notin us)
    /\ username \notin us

\* unregister_user, the lock region
UnregisteredUsers(us, username) == us \ {username}

UnregisteredWaiting(w, us, username) ==
    IF username \in us /\ username \in DOMAIN w THEN MapRemove(w, username) ELSE w

UnregisteredLast(l, us, username) ==
    IF username \in us /\ username \in DOMAIN l THEN MapRemove(l, username) ELSE l

\* ---------------------------------------------------------------- the state
Init ==
    /\ clients = EmptyMap
    /\ users = {}
    /\ running = TRUE
    /\ waiting_users = EmptyMap
    /\ last_message_timestamp = EmptyMap
    /\ lock = "free"
    /\ clock = 0
    /\ th = [t \in Threads |-> Idle]
    /\ resp = NoResp
    /\ stop = [pc |-> "idle", users |-> {}, now |-> 0]
    /\ sse = [u \in Names |-> NoStream]
    /\ wall = 0
    /\ room = NewRoom
    /\ delivered = [u \in Names |-> <<>>]
    /\ completed = EmptyMap

Response(op, username, code, body) ==
    [op |-> op, name |-> username, status |-> code, body |-> body]

\* the handler of thread t returns: its locals are gone, its answer is sent
Finish(t, code) ==
    /\ th' = [th EXCEPT ![t] = Idle]
    /\ resp' = Response(th[t].op, th[t].name, code, <<>>)

\* the sender and the content a handler passes to broadcast_message
Sender(r) == IF r.op = "send" THEN r.name ELSE "Server"

Content(r) ==
    IF r.op = "send" THEN r.text
    ELSE IF r.op = "unregister" THEN LeftNotice(r.name)
    ELSE IF r.op = "talking_stick" THEN ClaimNotice(r.name)
    ELSE IF r.op = "remind" THEN StillWaitingNotice(r.name)
    ELSE WaitingNotice(r.name)

\* broadcast_message has returned: check_event goes on to mark_user_waiting,
\* check_waiting_users to its reset of the wait, every other handler answers
\* success
AfterBroadcast(t) ==
    IF th[t].op \in {"check_event", "remind"}
    THEN /\ th' = [th EXCEPT ![t] =
                      [@ EXCEPT !.pc = IF th[t].op = "remind" THEN "r_reset" ELSE "mark",
                                !.pending = {}, !.current_users = {}, !.msg = NoMsg]]
         /\ resp' = NoResp
    ELSE Finish(t, HTTP_200_OK)

\* the broadcast of thread t has gone to everyone in current_users
Completed(t, to) ==
    completed' = MapPut(completed, th[t].msg.timestamp, [at |-> clock, to |-> to])

\* requests are served by the first free thread
FirstFree(t) ==
    /\ th[t].pc = "idle"
    /\ t # "t1" => th["t1"].pc # "idle"

\* A request arrives; every handler but unregister starts with
\* "if not chat_server.running: raise 503".
Call(t, op, username, text) ==
    /\ FirstFree(t)
    /\ IF op # "unregister" /\ ~running
       THEN /\ resp' = Response(op, username, HTTP_503_SERVICE_UNAVAILABLE, <<>>)
            /\ th' = th
       ELSE /\ th' = [th EXCEPT ![t] =
                        [Idle EXCEPT !.op = op, !.name = username, !.text = text,
                                     !.pc = IF op = "unregister" THEN "unreg"
                                            ELSE IF op = "register" THEN "reg"
                                            ELSE IF op = "reconnect" THEN "rc"
                                            ELSE "chk_user"]]
            /\ resp' = NoResp
    /\ UNCHANGED <<hub, lock, clock, stop, wall, room, sse, history>>

\* register: chat_server.register_user(username); return success
Register(t) ==
    /\ th[t].pc = "reg"
    /\ lock = "free"
    /\ IF running
       THEN /\ users' = RegisteredUsers(users, th[t].name)
            /\ clients' = RegisteredClients(clients, users, th[t].name)
       ELSE UNCHANGED <<users, clients>>
    /\ Finish(t, HTTP_200_OK)
    /\ UNCHANGED <<running, waiting_users, last_message_timestamp, lock, clock,
                   stop, wall, room, sse, history>>

\* reconnect: the block under chat_server.lock
Reconnect(t) ==
    /\ th[t].pc = "rc"
    /\ lock = "free"
    /\ users' = ReconnectedUsers(clients, users, th[t].name)
    /\ IF ReconnectBlocks(clients, users, th[t].name)
       THEN /\ lock' = t
            /\ th' = [th EXCEPT ![t].pc = "blocked"]
            /\ resp' = NoResp
       ELSE /\ lock' = lock
            /\ Finish(t, HTTP_200_OK)
    /\ UNCHANGED <<clients, running, waiting_users, last_message_timestamp, clock,
                   stop, wall, room, sse, history>>

\* unregister: unregister_user, the block under the lock, then the leave notice
Unregister(t) ==
    /\ th[t].pc = "unreg"
    /\ lock = "free"
    /\ users' = UnregisteredUsers(users, th[t].name)
    /\ waiting_users' = UnregisteredWaiting(waiting_users, users, th[t].name)
    /\ last_message_timestamp' =
          UnregisteredLast(last_message_timestamp, users, th[t].name)
    /\ IF th[t].name \in users
       THEN th' = [th EXCEPT ![t].pc = "b_check"] /\ resp' = NoResp
       ELSE Finish(t, HTTP_200_OK)
    /\ UNCHANGED <<clients, running, lock, clock, stop, wall, room, sse, history>>

\* send, talking_stick, check_event: "if username not in users: raise 404"
CheckUser(t) ==
    /\ th[t].pc = "chk_user"
    /\ lock = "free"
    /\ IF NotRegistered(users, th[t].name)
       THEN Finish(t, HTTP_404_NOT_FOUND)
       ELSE th' = [th EXCEPT ![t].pc = "b_check"] /\ resp' = NoResp
    /\ UNCHANGED <<hub, lock, clock, stop, wall, room, sse, history>>

\* broadcast_message: "if not self.running: return", then the envelope is built
BroadcastCheck(t) ==
    /\ th[t].pc = "b_check"
    /\ IF ~running
       THEN /\ AfterBroadcast(t)
            /\ clock' = clock
       ELSE /\ clock < MaxClock
            /\ clock' = clock + 1
            /\ th' = [th EXCEPT ![t].pc = "b_snap",
                                ![t].msg = Envelope(Sender(th[t]), Content(th[t]),
                                                    clock + 1)]
            /\ resp' = NoResp
    /\ UNCHANGED <<hub, lock, stop, wall, room, sse, history>>

\* broadcast_message: the block under the lock
BroadcastSnapshot(t) ==
    /\ th[t].pc = "b_snap"
    /\ lock = "free"
    /\ last_message_timestamp' =
          StampedLast(last_message_timestamp, users, th[t].msg.sender,
                      th[t].msg.timestamp)
    /\ waiting_users' = ClearedWaiting(waiting_users, th[t].msg.sender)
    /\ IF SnapshotUsers(users) = {}
       THEN AfterBroadcast(t) /\ Completed(t, {})
       ELSE /\ th' = [th EXCEPT ![t].pc = "b_append",
                                ![t].current_users = SnapshotUsers(users),
                                ![t].pending = SnapshotUsers(users)]
            /\ resp' = NoResp
            /\ completed' = completed
    /\ UNCHANGED <<clients, users, running, lock, clock, stop, wall, room, sse, delivered>>

\* broadcast_message: one turn of "for username in current_users"
BroadcastAppend(t, username) ==
    /\ th[t].pc = "b_append"
    /\ lock = "free"
    /\ username \in th[t].pending
    /\ clients' = add_message_to_queue(clients, username, th[t].msg)
    /\ IF th[t].pending = {username}
       THEN AfterBroadcast(t) /\ Completed(t, th[t].current_users)
       ELSE /\ th' = [th EXCEPT ![t].pending = @ \ {username}]
            /\ resp' = NoResp
            /\ completed' = completed
    /\ UNCHANGED <<users, running, waiting_users, last_message_timestamp, lock,
                   clock, stop, wall, room, sse, delivered>>

\* check_event: chat_server.mark_user_waiting(username)
MarkWaiting(t) ==
    /\ th[t].pc = "mark"
    /\ lock = "free"
    /\ waiting_users' = MarkedWaiting(waiting_users, users, th[t].name, wall)
    /\ Finish(t, HTTP_200_OK)
    /\ UNCHANGED <<clients, users, running, last_message_timestamp, lock, clock,
                   stop, wall, room, sse, history>>

\* a call of get_messages(username): one block under the lock
Drain(username) ==
    /\ lock = "free"
    /\ clients' = DrainedClients(clients, username)
    /\ delivered' = [delivered EXCEPT ![username] =
                        @ \o get_messages(clients, username)]
    /\ resp' = Response("drain", username, HTTP_200_OK,
                        get_messages(clients, username))
    /\ UNCHANGED <<users, running, waiting_users, last_message_timestamp, lock,
                   clock, th, stop, wall, room, sse, completed>>

\* stop: "if not self.running: return; self.running = False"
StopStart ==
    /\ stop.pc = "idle"
    /\ running
    /\ running' = FALSE
    /\ stop' = [stop EXCEPT !.pc = "lock"]
    /\ resp' = NoResp
    /\ UNCHANGED <<clients, users, waiting_users, last_message_timestamp, lock,
                   clock, th, wall, room, sse, history>>

\* stop: the block under the lock; the shutdown message is built after it
StopLock ==
    /\ stop.pc = "lock"
    /\ lock = "free"
    /\ users' = {}
    /\ waiting_users' = EmptyMap
    /\ stop' = [pc |-> IF users = {} THEN "done" ELSE "append",
                users |-> users, now |-> clock]
    /\ resp' = NoResp
    /\ UNCHANGED <<clients, running, last_message_timestamp, lock, clock, th, wall, room, sse,
                   history>>

\* stop: one turn of "for username in current_users", outside the lock
StopAppend(username) ==
    /\ stop.pc = "append"
    /\ username \in stop.users
    /\ clients' = IF username \in DOMAIN clients
                  THEN [clients EXCEPT ![username] =
                           Append(@, ShutdownMessage(stop.now))]
                  ELSE clients
    /\ stop' = [stop EXCEPT !.users = @ \ {username},
                            !.pc = IF stop.users = {username} THEN "done" ELSE "append"]
    /\ resp' = NoResp
    /\ UNCHANGED <<users, running, waiting_users, last_message_timestamp, lock,
                   clock, th, wall, room, sse, history>>

\* ------------------------------------------------------------ /events
\* the stream has ended: the generator has left its loop and run its finally
\* block, which changes nothing in the hub
Closed == [pc |-> "closed", messages |-> <<>>, idle |-> 0]

\* events: the block under chat_server.lock. register_user is called with the
\* lock held, and threading.Lock is not reentrant. Otherwise the
\* StreamingResponse is returned and event_stream starts.
Open(username) ==
    /\ sse[username].pc = "none"
    /\ lock = "free"
    /\ IF AutoRegisters(users, running, username)
       THEN /\ lock' = username
            /\ sse' = [sse EXCEPT ![username].pc = "blocked"]
       ELSE /\ lock' = lock
            /\ sse' = [sse EXCEPT ![username].pc = "loop"]
    /\ resp' = NoResp
    /\ UNCHANGED <<hub, clock, th, stop, wall, room, history>>

\* event_stream: "while chat_server.running"
StreamLoop(username) ==
    /\ sse[username].pc = "loop"
    /\ sse' = [sse EXCEPT ![username] = IF running THEN [@ EXCEPT !.pc = "check"]
                                        ELSE Closed]
    /\ resp' = NoResp
    /\ UNCHANGED <<hub, lock, clock, th, stop, wall, room, history>>

\* event_stream: "with chat_server.lock: if username not in users: break"
StreamCheck(username) ==
    /\ sse[username].pc = "check"
    /\ lock = "free"
    /\ sse' = [sse EXCEPT ![username] = IF NotRegistered(users, username) THEN Closed
                                        ELSE [@ EXCEPT !.pc = "get"]]
    /\ resp' = NoResp
    /\ UNCHANGED <<hub, lock, clock, th, stop, wall, room, history>>

\* event_stream: messages = chat_server.get_messages(username)
StreamGet(username) ==
    /\ sse[username].pc = "get"
    /\ lock = "free"
    /\ clients' = DrainedClients(clients, username)
    /\ delivered' = [delivered EXCEPT ![username] =
                        @ \o get_messages(clients, username)]
    /\ sse' = [sse EXCEPT ![username].pc = "emit",
                          ![username].messages = get_messages(clients, username)]
    /\ resp' = Response("drain", username, HTTP_200_OK,
                        get_messages(clients, username))
    /\ UNCHANGED <<users, running, waiting_users, last_message_timestamp, lock,
                   clock, th, stop, wall, room, completed>>

\* a frame written to a stream whose other end has failed reaches nobody
Written(c, username, messages) ==
    IF username = self_username /\ c.channel.state = "failed"
    THEN [c EXCEPT !.channel.lost = @ \o messages]
    ELSE c

\* event_stream: "if not chat_server.running: break", then the yield of the
\* data frame or of the keepalive, then the sleep
StreamEmit(username) ==
    /\ sse[username].pc = "emit"
    /\ IF ~running
       THEN /\ sse' = [sse EXCEPT ![username] = Closed]
            /\ resp' = NoResp
       ELSE /\ sse' = [sse EXCEPT ![username] =
                         [pc |-> "loop", messages |-> <<>>,
                          idle |-> IF sse[username].messages # <<>> THEN 0
                                   ELSE IF @.idle < IdleBound THEN @.idle + 1
                                   ELSE @.idle]]
            /\ resp' = Frame(username, sse[username].messages)
    /\ room' = IF ~running THEN room
               ELSE Written(room, username, sse[username].messages)
    /\ UNCHANGED <<hub, lock, clock, th, stop, wall, history>>

\* event_stream: asyncio.CancelledError while suspended in the yield or in the
\* sleep (the client went away)
StreamCancel(username) ==
    /\ sse[username].pc = "loop"
    /\ sse' = [sse EXCEPT ![username] = Closed]
    /\ resp' = NoResp
    /\ UNCHANGED <<hub, lock, clock, th, stop, wall, room, history>>

\* ------------------------------------------------- check_waiting_users
\* time passes
Pass ==
    /\ wall < MaxWall
    /\ wall' = wall + WallStep
    /\ resp' = NoResp
    /\ UNCHANGED <<hub, lock, clock, th, stop, sse, room, history>>

\* check_waiting_users: "while chat_server.running", the copy of waiting_users
\* taken under the lock, and the reading of the time
RemindTick(t) ==
    /\ FirstFree(t)
    /\ running
    /\ lock = "free"
    /\ th' = [th EXCEPT ![t] =
                 [Idle EXCEPT !.op = "remind", !.pc = "r_next",
                              !.waiting = get_waiting_users,
                              !.current_time = wall,
                              !.due = Due(get_waiting_users, wall),
                              !.since = clock]]
    /\ resp' = NoResp
    /\ UNCHANGED <<hub, lock, clock, stop, sse, wall, room, history>>

\* check_waiting_users: the next entry of the copy that has waited long enough,
\* or the sleep when there is none left
RemindNext(t) ==
    /\ th[t].pc = "r_next"
    /\ IF th[t].due = {}
       THEN th' = [th EXCEPT ![t] = Idle]
       ELSE \E u \in th[t].due : th' = [th EXCEPT ![t].name = u, ![t].pc = "b_check"]
    /\ resp' = NoResp
    /\ UNCHANGED <<hub, lock, clock, stop, sse, wall, room, history>>

\* check_waiting_users: the block under the lock after the broadcast
RemindReset(t) ==
    /\ th[t].pc = "r_reset"
    /\ lock = "free"
    /\ waiting_users' = ResetWaiting(waiting_users, th[t].name, th[t].current_time)
    /\ th' = [th EXCEPT ![t].pc = "r_next", ![t].due = @ \ {th[t].name},
                        ![t].name = ""]
    /\ resp' = NoResp
    /\ UNCHANGED <<clients, users, running, last_message_timestamp, lock, clock,
                   stop, sse, wall, room, history>>

\* ------------------------------------------------------------ AsyncChatRoom
\* Texts are strings.  The hub is the environment of the object: each request
\* the object makes is answered "ok", "rejected" (an HTTP error status) or
\* "failed" (no answer, requests raises).
Outcomes == {"ok", "rejected", "failed"}

\* str(e) of the exception raised for an answer that is not "ok"
ErrorText(answer) ==
    IF answer = "rejected" THEN "404 Client Error" ELSE "Connection refused"

Whitespace == {" ", "\n", "\t"}

RECURSIVE repeat(_, _)
repeat(s, n) == IF n = 0 THEN "" ELSE s \o repeat(s, n - 1)

\* the texts handed to append: a blank, a letter, and a text that is one
\* character longer than max_append_length
LongText == repeat("a", max_append_length + 1)

Texts == {" ", "a", LongText}

\* the envelopes the event stream hands to the listener
Inbound ==
    {[sender |-> self_username, content |-> "hi"],
     [sender |-> "B", content |-> "hi"],
     [sender |-> "Server", content |-> StillWaitingNotice("B")]}
    \cup {[sender |-> "Server", content |-> WaitingNotice(u)] :
             u \in {self_username} \cup Peers}

\* what GET /users answers when it answers
Listing == <<"A", "B">>

RECURSIVE lstrip(_)
lstrip(s) ==
    IF Len(s) > 0 /\ SubSeq(s, 1, 1) \in Whitespace
    THEN lstrip(SubSeq(s, 2, Len(s)))
    ELSE s

RECURSIVE rstrip(_)
rstrip(s) ==
    IF Len(s) > 0 /\ SubSeq(s, Len(s), Len(s)) \in Whitespace
    THEN rstrip(SubSeq(s, 1, Len(s) - 1))
    ELSE s

\* str.strip()
strip(s) == lstrip(rstrip(s))

\* sep.join(list)
RECURSIVE join(_, _)
join(sep, list) ==
    IF list = <<>> THEN ""
    ELSE IF Len(list) = 1 THEN list[1]
    ELSE list[1] \o sep \o join(sep, Tail(list))

\* "a in b" for two strings
IsIn(a, b) ==
    \E i \in 1..(Len(b) - Len(a) + 1) : SubSeq(b, i, i + Len(a) - 1) = a

\* s[-n:] if len(s) > n else s
Suffix(s, n) == IF Len(s) > n THEN SubSeq(s, Len(s) - n + 1, Len(s)) ELSE s

\* a request the object makes to the hub
Request(path, message) ==
    [path |-> path, username |-> self_username, message |-> message]

\* a method is entered: nothing requested or returned yet
Entered(c, call, text) ==
    [c EXCEPT !.call = call, !.sender = "", !.text = text, !.answer = "",
              !.posted = <<>>, !.returned = ""]

\* _add_system_message
add_system_message(c, message) ==
    IF ("system:" \o message) \notin c.processed_messages
    THEN [c EXCEPT !.processed_messages = @ \cup {"system:" \o message},
                   !.queue = Append(@, "[system] " \o message)]
    ELSE c

\* _get_current_draft
get_current_draft(segments) == strip(join("", segments))

\* the list _poll_new_message builds: the queue without its repetitions
RECURSIVE Output(_, _)
Output(queue, output) ==
    IF queue = <<>> THEN output
    ELSE Output(Tail(queue),
                IF \E i \in 1..Len(output) : output[i] = Head(queue)
                THEN output
                ELSE Append(output, Head(queue)))

\* _poll_new_message, as the last statement of a method
poll_new_message(c) ==
    [c EXCEPT !.queue = <<>>, !.returned = join("\n", Output(c.queue, <<>>))]

\* maybe_connect, _connect: register, ask for the participants, start listening
maybe_connect(c, reg, usr) ==
    IF c.running THEN c
    ELSE IF reg # "ok"
    THEN add_system_message(
             [c EXCEPT !.posted = Append(@, Request("/register", ""))],
             "Failed to register with server: " \o ErrorText(reg))
    ELSE LET asked == [c EXCEPT !.posted = @ \o <<Request("/register", ""),
                                                  Request("/users", "")>>,
                                !.running = TRUE]
         IN  IF usr = "ok"
             THEN add_system_message(asked,
                      "Current participants: " \o join(", ", Listing))
             ELSE asked

\* talking_stick, after the request: raise_for_status and the flag, or the
\* except branch
claimed(c, answer) ==
    IF answer = "ok"
    THEN [c EXCEPT !.has_talking_stick = TRUE]
    ELSE add_system_message(c, "Failed to claim talking stick: " \o ErrorText(answer))

\* talking_stick
talking_stick(c, reg, usr, answer) ==
    LET connected == maybe_connect(Entered(c, "talking_stick", ""), reg, usr)
        asked == [connected EXCEPT !.draft_segments = <<>>,
                                   !.answer = answer,
                                   !.posted = Append(@, Request("/talking_stick", ""))]
    IN  poll_new_message(claimed(asked, answer))

\* append, with the talking stick: the segment and the truncation notice
appended(c, text) ==
    IF Len(text) > max_append_length
    THEN LET kept == [c EXCEPT !.draft_segments =
                                   Append(@, SubSeq(text, 1, max_append_length))]
             preview == Suffix(get_current_draft(kept.draft_segments), PreviewLength)
         IN  add_system_message(kept,
                 "msg truncated: current draft suffix: '" \o preview \o "'")
    ELSE [c EXCEPT !.draft_segments = Append(@, text)]

MustClaim == "You must claim the talking stick first by calling talking_stick()"

\* append
append(c, text, reg, usr) ==
    LET connected == maybe_connect(Entered(c, "append", text), reg, usr)
    IN  IF ~connected.has_talking_stick
        THEN poll_new_message(add_system_message(connected, MustClaim))
        ELSE poll_new_message(appended(connected, text))

\* push, the request: the key of the echo, the POST, the except branch
sent(c, draft, answer) ==
    LET keyed == [c EXCEPT !.processed_messages = @ \cup {self_username \o ":" \o draft},
                           !.answer = answer,
                           !.posted = Append(@, Request("/send", draft))]
    IN  IF answer = "failed"
        THEN add_system_message(keyed, "Failed to send message: " \o ErrorText(answer))
        ELSE keyed

\* push, its last statements: the stick is released, the draft cleared
released(c) == [c EXCEPT !.has_talking_stick = FALSE, !.draft_segments = <<>>]

\* push
push(c, reg, usr, answer) ==
    LET connected == maybe_connect(Entered(c, "push", ""), reg, usr)
        draft == get_current_draft(connected.draft_segments)
    IN  poll_new_message(released(IF draft # ""
                                  THEN sent(connected, draft, answer)
                                  ELSE connected))

\* undo, its pop: the draft without its last segment, if it has one
undone(segments) ==
    IF segments # <<>> THEN SubSeq(segments, 1, Len(segments) - 1) ELSE segments

\* undo
undo(c, reg, usr) ==
    LET connected == maybe_connect(Entered(c, "undo", ""), reg, usr)
    IN  poll_new_message([connected EXCEPT !.draft_segments = undone(@)])

\* reset
reset(c, reg, usr) ==
    LET connected == maybe_connect(Entered(c, "reset", ""), reg, usr)
    IN  poll_new_message([connected EXCEPT !.draft_segments = <<>>,
                                           !.has_talking_stick = FALSE])

\* _sse_listener, the body of "for msg in messages"
heard(c, msg) ==
    LET msg_id == msg.sender \o ":" \o msg.content
        seen == [c EXCEPT !.call = "_sse_listener", !.sender = msg.sender,
                          !.text = msg.content, !.answer = "", !.posted = <<>>,
                          !.returned = ""]
    IN  IF msg.sender = self_username THEN seen
        ELSE IF msg_id \in c.processed_messages /\ msg.sender # "Server" THEN seen
        ELSE IF /\ msg.sender = "Server"
                /\ IsIn("waiting", msg.content)
                /\ IsIn(self_username, msg.content) THEN seen
        ELSE LET added == c.processed_messages \cup {msg_id}
             IN  [seen EXCEPT !.processed_messages =
                                  IF Cardinality(added) > ProcessedLimit
                                  THEN {} ELSE added,
                              !.queue = Append(@, "[" \o msg.sender \o "]: " \o msg.content)]

\* the answers that matter to a call: none to connecting once connected
Answers(connected) == IF connected THEN {"ok"} ELSE Outcomes

\* the caller goes on while the de-duplication set holds fewer than MaxKeys keys
Calling ==
    /\ Cardinality(room.processed_messages) < MaxKeys
    /\ room.check.pc = "idle"

TalkingStick ==
    /\ Calling
    /\ \E reg \in Answers(room.running), usr \in Answers(room.running),
          answer \in Outcomes :
          room' = talking_stick(room, reg, usr, answer)
    /\ resp' = NoResp
    /\ UNCHANGED <<hub, lock, clock, th, stop, sse, wall, history>>

AppendText ==
    /\ Calling
    /\ Len(room.draft_segments) < MaxSegments
    /\ \E text \in Texts, reg \in Answers(room.running), usr \in Answers(room.running) :
          room' = append(room, text, reg, usr)
    /\ resp' = NoResp
    /\ UNCHANGED <<hub, lock, clock, th, stop, sse, wall, history>>

Push ==
    /\ Calling
    /\ \E reg \in Answers(room.running), usr \in Answers(room.running),
          answer \in Outcomes :
          room' = push(room, reg, usr, answer)
    /\ resp' = NoResp
    /\ UNCHANGED <<hub, lock, clock, th, stop, sse, wall, history>>

Undo ==
    /\ Calling
    /\ \E reg \in Answers(room.running), usr \in Answers(room.running) :
          room' = undo(room, reg, usr)
    /\ resp' = NoResp
    /\ UNCHANGED <<hub, lock, clock, th, stop, sse, wall, history>>

Reset ==
    /\ Calling
    /\ \E reg \in Answers(room.running), usr \in Answers(room.running) :
          room' = reset(room, reg, usr)
    /\ resp' = NoResp
    /\ UNCHANGED <<hub, lock, clock, th, stop, sse, wall, history>>

\* check, "if not first_time": the announcement to the hub
announced(c, answer) ==
    IF ~c.check.first_time
    THEN [c EXCEPT !.answer = answer,
                   !.check.announced = @ + 1,
                   !.posted = Append(@, Request("/check_event", ""))]
    ELSE c

\* check is called: maybe_connect, delay = 2, first_time = True
CheckCall ==
    /\ Calling
    /\ \E reg \in Answers(room.running), usr \in Answers(room.running) :
          room' = [maybe_connect(Entered(room, "check", ""), reg, usr)
                      EXCEPT !.check = [pc |-> "poll", delay |-> 2,
                                        first_time |-> TRUE, cycle |-> 1,
                                        announced |-> 0]]
    /\ resp' = NoResp
    /\ UNCHANGED <<hub, lock, clock, th, stop, sse, wall, history>>

\* check, the head of a cycle: _poll_new_message, and the return if it found
\* something
CheckPoll ==
    /\ room.check.pc = "poll"
    /\ room' = IF room.queue # <<>>
               THEN [poll_new_message(room) EXCEPT !.check.pc = "idle"]
               ELSE [room EXCEPT !.check.pc = "announce"]
    /\ resp' = NoResp
    /\ UNCHANGED <<hub, lock, clock, th, stop, sse, wall, history>>

\* check, the announcement; a request that fails raises out of check
CheckAnnounce ==
    /\ room.check.pc = "announce"
    /\ \E answer \in (IF room.check.first_time THEN {"ok"} ELSE Outcomes) :
          room' = IF ~room.check.first_time /\ answer = "failed"
                  THEN [announced(room, answer) EXCEPT !.check.pc = "idle"]
                  ELSE [announced(room, answer) EXCEPT !.check.pc = "sleep"]
    /\ resp' = NoResp
    /\ UNCHANGED <<hub, lock, clock, th, stop, sse, wall, history>>

\* check, the tail of a cycle: sleep(delay), the delay doubled, first_time = False
CheckSleep ==
    /\ room.check.pc = "sleep"
    /\ room.check.cycle < MaxCycles
    /\ room' = [room EXCEPT !.check = [@ EXCEPT !.pc = "poll",
                                                 !.delay = 2 * @,
                                                 !.first_time = FALSE,
                                                 !.cycle = @ + 1]]
    /\ resp' = NoResp
    /\ UNCHANGED <<hub, lock, clock, th, stop, sse, wall, history>>

\* the listener thread runs while _running and takes one envelope of a frame
Listen ==
    /\ room.running
    /\ Len(room.queue) < MaxQueue
    /\ \E msg \in Inbound : room' = heard(room, msg)
    /\ resp' = NoResp
    /\ UNCHANGED <<hub, lock, clock, th, stop, sse, wall, history>>

\* _sse_listener: the stream breaks, iter_lines raises, the except branch
\* reports it and sleeps before the next turn of "while self._running"
Fail ==
    /\ room.running
    /\ room.channel.state # "failed"
    /\ sse[self_username].pc \in {"loop", "check", "get", "emit"}
    /\ room' = add_system_message(
                   [room EXCEPT !.channel = [state |-> "failed", since |-> clock,
                                             lost |-> <<>>]],
                   "Connection error: " \o ErrorText("failed") \o ". Reconnecting...")
    /\ resp' = NoResp
    /\ UNCHANGED <<hub, lock, clock, th, stop, sse, wall, history>>

\* _sse_listener: the next GET /events, served by events once the stream
\* before it has ended
Reopen ==
    /\ room.running
    /\ room.channel.state = "failed"
    /\ sse[self_username].pc = "closed"
    /\ lock = "free"
    /\ IF AutoRegisters(users, running, self_username)
       THEN /\ lock' = self_username
            /\ sse' = [sse EXCEPT ![self_username] = [NoStream EXCEPT !.pc = "blocked"]]
       ELSE /\ lock' = lock
            /\ sse' = [sse EXCEPT ![self_username] = [NoStream EXCEPT !.pc = "loop"]]
    /\ room' = [room EXCEPT !.channel.state = "reopened"]
    /\ resp' = NoResp
    /\ UNCHANGED <<hub, clock, th, stop, wall, history>>

\* ------------------------------------------------------------ the hub, whole
Ops == {"register", "reconnect", "unregister", "send", "talking_stick",
        "check_event"}

Next ==
    \/ \E t \in Threads, op \in Ops, u \in Names, c \in Contents :
          Call(t, op, u, IF op = "send" THEN c ELSE "")
    \/ \E t \in Threads : Register(t)
    \/ \E t \in Threads : Reconnect(t)
    \/ \E t \in Threads : Unregister(t)
    \/ \E t \in Threads : CheckUser(t)
    \/ \E t \in Threads : BroadcastCheck(t)
    \/ \E t \in Threads : BroadcastSnapshot(t)
    \/ \E t \in Threads, u \in Names : BroadcastAppend(t, u)
    \/ \E t \in Threads : MarkWaiting(t)
    \/ \E u \in Names : Drain(u)
    \/ StopStart
    \/ StopLock
    \/ \E u \in Names : StopAppend(u)
    \/ \E u \in Names : Open(u)
    \/ \E u \in Names : StreamLoop(u)
    \/ \E u \in Names : StreamCheck(u)
    \/ \E u \in Names : StreamGet(u)
    \/ \E u \in Names : StreamEmit(u)
    \/ \E u \in Names : StreamCancel(u)
    \/ Pass
    \/ TalkingStick
    \/ AppendText
    \/ Push
    \/ Undo
    \/ Reset
    \/ CheckCall
    \/ CheckPoll
    \/ CheckAnnounce
    \/ CheckSleep
    \/ Listen
    \/ Fail
    \/ Reopen
    \/ \E t \in Threads : RemindTick(t)
    \/ \E t \in Threads : RemindNext(t)
    \/ \E t \in Threads : RemindReset(t)

Spec == Init /\ [][Next]_vars

\* ------------------------------------------------ the hub, groups of callers
\* Each specification below is Spec with the callers restricted to some of the
\* handlers, and to one request at a time where the claims checked under it
\* are about what one call does.

\* registering, leaving, coming back and speaking, one request at a time, while
\* the queues are drained
OpsRegistry == {"register", "reconnect", "unregister", "send"}

NextRegistry ==
    \/ \E op \in OpsRegistry, u \in Names, c \in Contents :
          Call("t1", op, u, IF op = "send" THEN c ELSE "")
    \/ Register("t1")
    \/ Reconnect("t1")
    \/ Unregister("t1")
    \/ CheckUser("t1")
    \/ BroadcastCheck("t1")
    \/ BroadcastSnapshot("t1")
    \/ \E u \in Names : BroadcastAppend("t1", u)
    \/ \E u \in Names : Drain(u)

SpecRegistry == Init /\ [][NextRegistry]_vars

\* waiting for a reply, speaking and leaving, one request at a time
OpsWaiting == {"register", "unregister", "check_event", "send"}

NextWaiting ==
    \/ \E op \in OpsWaiting, u \in Names, c \in Contents :
          Call("t1", op, u, IF op = "send" THEN c ELSE "")
    \/ Register("t1")
    \/ Unregister("t1")
    \/ CheckUser("t1")
    \/ BroadcastCheck("t1")
    \/ BroadcastSnapshot("t1")
    \/ \E u \in Names : BroadcastAppend("t1", u)
    \/ MarkWaiting("t1")

SpecWaiting == Init /\ [][NextWaiting]_vars

\* speaking, claiming the floor and waiting around a shutdown, one request at a
\* time beside stop
OpsShutdown == {"register", "send", "talking_stick", "check_event"}

NextShutdown ==
    \/ \E op \in OpsShutdown, u \in Names, c \in Contents :
          Call("t1", op, u, IF op = "send" THEN c ELSE "")
    \/ Register("t1")
    \/ CheckUser("t1")
    \/ BroadcastCheck("t1")
    \/ BroadcastSnapshot("t1")
    \/ \E u \in Names : BroadcastAppend("t1", u)
    \/ MarkWaiting("t1")
    \/ StopStart
    \/ StopLock
    \/ \E u \in Names : StopAppend(u)

SpecShutdown == Init /\ [][NextShutdown]_vars

\* two threads speak at once while the queues are drained
OpsOrder == {"register", "send"}

NextOrder ==
    \/ \E t \in Threads, op \in OpsOrder, u \in Names, c \in Contents :
          Call(t, op, u, IF op = "send" THEN c ELSE "")
    \/ \E t \in Threads : Register(t)
    \/ \E t \in Threads : CheckUser(t)
    \/ \E t \in Threads : BroadcastCheck(t)
    \/ \E t \in Threads : BroadcastSnapshot(t)
    \/ \E t \in Threads, u \in Names : BroadcastAppend(t, u)
    \/ \E u \in Names : Drain(u)

SpecOrder == Init /\ [][NextOrder]_vars

\* two threads speak, register and leave at once
OpsFanout == {"register", "unregister", "send"}

NextFanout ==
    \/ \E t \in Threads, op \in OpsFanout, u \in Names, c \in Contents :
          Call(t, op, u, IF op = "send" THEN c ELSE "")
    \/ \E t \in Threads : Register(t)
    \/ \E t \in Threads : Unregister(t)
    \/ \E t \in Threads : CheckUser(t)
    \/ \E t \in Threads : BroadcastCheck(t)
    \/ \E t \in Threads : BroadcastSnapshot(t)
    \/ \E t \in Threads, u \in Names : BroadcastAppend(t, u)

SpecFanout == Init /\ [][NextFanout]_vars

\* one event stream beside registering, speaking and a shutdown, one request
\* at a time
OpsStream == {"register", "send"}

Streamed == {"A"}

NextStream ==
    \/ \E op \in OpsStream, u \in Names, c \in Contents :
          Call("t1", op, u, IF op = "send" THEN c ELSE "")
    \/ Register("t1")
    \/ CheckUser("t1")
    \/ BroadcastCheck("t1")
    \/ BroadcastSnapshot("t1")
    \/ \E u \in Names : BroadcastAppend("t1", u)
    \/ StopStart
    \/ StopLock
    \/ \E u \in Names : StopAppend(u)
    \/ \E u \in Streamed : Open(u)
    \/ \E u \in Streamed : StreamLoop(u)
    \/ \E u \in Streamed : StreamCheck(u)
    \/ \E u \in Streamed : StreamGet(u)
    \/ \E u \in Streamed : StreamEmit(u)
    \/ \E u \in Streamed : StreamCancel(u)

SpecStream == Init /\ [][NextStream]_vars

\* event streams beside registering and a shutdown; a stream that can take its
\* next step does take it, and a stop that has begun goes on
NextClosing ==
    \/ \E u \in Names : Call("t1", "register", u, "")
    \/ Register("t1")
    \/ StopStart
    \/ StopLock
    \/ \E u \in Names : StopAppend(u)
    \/ \E u \in Names : Open(u)
    \/ \E u \in Names : StreamLoop(u)
    \/ \E u \in Names : StreamCheck(u)
    \/ \E u \in Names : StreamGet(u)
    \/ \E u \in Names : StreamEmit(u)

FairClosing ==
    /\ WF_vars(StopLock)
    /\ \A u \in Names : /\ WF_vars(StopAppend(u))
                        /\ WF_vars(StreamLoop(u))
                        /\ WF_vars(StreamCheck(u))
                        /\ WF_vars(StreamGet(u))
                        /\ WF_vars(StreamEmit(u))

SpecClosing == Init /\ [][NextClosing]_vars /\ FairClosing

\* registering, leaving, coming back and speaking around a shutdown, one
\* request at a time beside stop
OpsHalt == {"register", "unregister", "reconnect", "send"}

NextHalt ==
    \/ \E op \in OpsHalt, u \in Names, c \in Contents :
          Call("t1", op, u, IF op = "send" THEN c ELSE "")
    \/ Register("t1")
    \/ Reconnect("t1")
    \/ Unregister("t1")
    \/ CheckUser("t1")
    \/ BroadcastCheck("t1")
    \/ BroadcastSnapshot("t1")
    \/ \E u \in Names : BroadcastAppend("t1", u)
    \/ StopStart
    \/ StopLock
    \/ \E u \in Names : StopAppend(u)

SpecHalt == Init /\ [][NextHalt]_vars

\* waiting for a reply and speaking while time passes and check_waiting_users
\* takes its turns, one caller at a time
OpsReminder == {"register", "check_event", "send"}

NextReminder ==
    \/ \E op \in OpsReminder, u \in Names, c \in Contents :
          Call("t1", op, u, IF op = "send" THEN c ELSE "")
    \/ Register("t1")
    \/ CheckUser("t1")
    \/ BroadcastCheck("t1")
    \/ BroadcastSnapshot("t1")
    \/ \E u \in Names : BroadcastAppend("t1", u)
    \/ MarkWaiting("t1")
    \/ Pass
    \/ RemindTick("t1")
    \/ RemindNext("t1")
    \/ RemindReset("t1")

SpecReminder == Init /\ [][NextReminder]_vars

\* the object alone: a caller that claims, drafts and publishes
NextDraft ==
    \/ TalkingStick
    \/ AppendText
    \/ Push

SpecDraft == Init /\ [][NextDraft]_vars

\* the object alone: the listener, and the calls that connect it and read the queue
NextListener ==
    \/ TalkingStick
    \/ Listen

SpecListener == Init /\ [][NextListener]_vars

\* the object alone: a caller that uses every method on the draft
NextCompose ==
    \/ TalkingStick
    \/ AppendText
    \/ Undo
    \/ Reset
    \/ Push

SpecCompose == Init /\ [][NextCompose]_vars

\* the object alone: everything that puts a key into the de-duplication set
NextKeys ==
    \/ TalkingStick
    \/ AppendText
    \/ Push
    \/ Listen

SpecKeys == Init /\ [][NextKeys]_vars

\* the object alone: a caller that waits for messages while the listener hears
NextCheck ==
    \/ CheckCall
    \/ CheckPoll
    \/ CheckAnnounce
    \/ CheckSleep
    \/ Listen

SpecCheck == Init /\ [][NextCheck]_vars

\* the object connected: it has registered with the hub and its listener is
\* about to open the event stream
InitConnected ==
    /\ clients = [u \in {self_username} |-> <<>>]
    /\ users = {self_username}
    /\ running = TRUE
    /\ waiting_users = EmptyMap
    /\ last_message_timestamp = EmptyMap
    /\ lock = "free"
    /\ clock = 0
    /\ th = [t \in Threads |-> Idle]
    /\ resp = NoResp
    /\ stop = [pc |-> "idle", users |-> {}, now |-> 0]
    /\ sse = [u \in Names |-> NoStream]
    /\ wall = 0
    /\ room = maybe_connect(NewRoom, "ok", "ok")
    /\ delivered = [u \in Names |-> <<>>]
    /\ completed = EmptyMap

\* the hub serving the stream of the object and the requests of the others,
\* the stream failing and being opened again
OpsReconnect == {"register", "send"}

NextReconnect ==
    \/ \E op \in OpsReconnect, u \in Names, c \in Contents :
          Call("t1", op, u, IF op = "send" THEN c ELSE "")
    \/ Register("t1")
    \/ CheckUser("t1")
    \/ BroadcastCheck("t1")
    \/ BroadcastSnapshot("t1")
    \/ \E u \in Names : BroadcastAppend("t1", u)
    \/ Open(self_username)
    \/ StreamLoop(self_username)
    \/ StreamCheck(self_username)
    \/ StreamGet(self_username)
    \/ StreamEmit(self_username)
    \/ StreamCancel(self_username)
    \/ Fail
    \/ Reopen

SpecReconnect == InitConnected /\ [][NextReconnect]_vars

\* every handler that broadcasts, a shutdown, and check_waiting_users while time
\* passes, one caller at a time beside stop
OpsNotices == {"register", "unregister", "send", "talking_stick", "check_event"}

NextNotices ==
    \/ \E op \in OpsNotices, u \in Names, c \in Contents :
          Call("t1", op, u, IF op = "send" THEN c ELSE "")
    \/ Register("t1")
    \/ Unregister("t1")
    \/ CheckUser("t1")
    \/ BroadcastCheck("t1")
    \/ BroadcastSnapshot("t1")
    \/ \E u \in Names : BroadcastAppend("t1", u)
    \/ MarkWaiting("t1")
    \/ Pass
    \/ RemindTick("t1")
    \/ RemindNext("t1")
    \/ RemindReset("t1")
    \/ StopStart
    \/ StopLock
    \/ \E u \in Names : StopAppend(u)

SpecNotices == Init /\ [][NextNotices]_vars

\* participants register, wait and leave, one request at a time, while time
\* passes; check_waiting_users takes its turns beside the request being served,
\* and the hub is stopped
OpsLive == {"register", "unregister", "check_event"}

NextLive ==
    \/ \E op \in OpsLive, u \in Names : Call("t1", op, u, "")
    \/ Register("t1")
    \/ Unregister("t1")
    \/ CheckUser("t1")
    \/ \E t \in Threads : BroadcastCheck(t)
    \/ \E t \in Threads : BroadcastSnapshot(t)
    \/ \E t \in Threads, u \in Names : BroadcastAppend(t, u)
    \/ MarkWaiting("t1")
    \/ Pass
    \/ \E t \in Threads : RemindTick(t)
    \/ \E t \in Threads : RemindNext(t)
    \/ \E t \in Threads : RemindReset(t)
    \/ StopStart
    \/ StopLock
    \/ \E u \in Names : StopAppend(u)

SpecLive == Init /\ [][NextLive]_vars

\* ----------------------------------------------------- reading the histories
\* everything get_messages has returned for a name, then what is still queued
Stream(u) == delivered[u] \o get_messages(clients, u)

Queue(u) == get_messages(clients, u)

\* where the envelope broadcast with timestamp ts stands in a sequence
Indices(seq, ts) ==
    {i \in 1..Len(seq) : seq[i].timestamp = ts
                         /\ seq[i].content # "Server shutting down..."}

Contains(seq, content) == \E i \in 1..Len(seq) : seq[i].content = content

IsPrefix(s1, s2) == Len(s1) <= Len(s2) /\ SubSeq(s2, 1, Len(s1)) = s1

\* thread t takes a step
Steps(t) == th'[t] # th[t]

\* the step is a call of get_messages(u)
Drains(u) == resp'.op = "drain" /\ resp'.name = u

\* ------------------------------------------------------------------- claims

C2_BroadcastOrderKept ==
    \A b1 \in DOMAIN completed : \A u \in Names :
        /\ \A i, j \in 1..Len(Stream(u)) :
              (Stream(u)[i].timestamp = b1 /\ Stream(u)[j].timestamp > completed[b1].at)
                 => i < j
        /\ \A b2 \in DOMAIN completed :
              (completed[b1].at < b2 /\ u \in completed[b1].to \cap completed[b2].to)
                 => /\ Cardinality(Indices(Stream(u), b1)) = 1
                    /\ Cardinality(Indices(Stream(u), b2)) = 1

\* two broadcasts one after the other to both participants; one of them has
\* drained the first envelope and still has the second queued
C2_Witness ==
    \E b1, b2 \in DOMAIN completed : \E u \in Names :
        /\ completed[b1].at < b2
        /\ completed[b1].to = Names /\ completed[b2].to = Names
        /\ Indices(delivered[u], b1) # {}
        /\ Indices(Queue(u), b2) # {}

\* C3: any two participants that both have the same two envelopes have them
\* in the same order.
C3_RecipientsAgreeOnOrder ==
    \A u, v \in Names :
        \A i1, i2 \in 1..Len(Stream(u)) : \A j1, j2 \in 1..Len(Stream(v)) :
            (Stream(u)[i1] = Stream(v)[j1] /\ Stream(u)[i2] = Stream(v)[j2])
               => (i1 < i2 <=> j1 < j2)

\* C4: a broadcast takes the live set as its recipients; each turn of its loop
\* appends its envelope once to the queue of one recipient not yet served and
\* changes no other queue; it returns when every recipient has been served.
\* No queue ever holds two copies of an envelope, nor a copy the broadcast did
\* not address to it.
C4_AppendsOncePerRecipient ==
    \A t \in Threads :
        /\ (th[t].pc = "b_snap" /\ Steps(t))
              => /\ th'[t].pc = "b_append" => th'[t].pending = users
                 /\ th'[t].pc # "b_append" => users = {}
        /\ (th[t].pc = "b_append" /\ Steps(t))
              => \E u \in th[t].pending :
                    /\ clients' = [clients EXCEPT ![u] = Append(@, th[t].msg)]
                    /\ IF th[t].pending = {u}
                       THEN th'[t].pc # "b_append"
                       ELSE th'[t].pending = th[t].pending \ {u}

C4_NoStrayCopy ==
    \A u \in Names :
        /\ \A b \in 1..clock : Cardinality(Indices(Queue(u), b)) <= 1
        /\ \A b \in DOMAIN completed :
              u \notin completed[b].to => Indices(Queue(u), b) = {}
        /\ \A t \in Threads :
              (th[t].pc = "b_append" /\ u \notin th[t].current_users \ th[t].pending)
                  => Indices(Queue(u), th[t].msg.timestamp) = {}

C4_BroadcastFanOut == []C4_NoStrayCopy /\ [][C4_AppendsOncePerRecipient]_vars

\* a participant's message has gone to both live participants, its own queue
\* included
C4_Witness ==
    \E b \in DOMAIN completed : \E u \in Names :
        /\ completed[b].to = Names
        /\ \A v \in Names : Indices(Queue(v), b) # {}
        /\ \E i \in Indices(Queue(u), b) : Queue(u)[i].sender = u

\* C5: unregister leaves every queue as it is, and nothing its handler does
\* later touches the queue of the name that left; reconnect of a name that
\* has a queue and is not live makes it live, answers success and leaves every
\* queue as it is; get_messages then returns the whole queue, in order, and
\* leaves it empty.
C5_Steps ==
    /\ \A t \in Threads :
          /\ (th[t].pc = "unreg" /\ Steps(t)) => clients' = clients
          /\ (th[t].op = "unregister" /\ Steps(t)) =>
                get_messages(clients', th[t].name) = Queue(th[t].name)
          /\ (th[t].pc = "rc" /\ Steps(t) /\ th[t].name \in DOMAIN clients
                /\ th[t].name \notin users)
                => /\ users' = users \cup {th[t].name}
                   /\ clients' = clients
                   /\ resp' = Response("reconnect", th[t].name, HTTP_200_OK, <<>>)
    /\ \A u \in Names :
          Drains(u) => /\ resp'.body = Queue(u)
                       /\ Queue(u)' = <<>>
                       /\ \A v \in Names \ {u} : Queue(v)' = Queue(v)

C5_ReconnectKeepsBacklog == [][C5_Steps]_vars

\* a name that left (its leave notice went to the other participant) has been
\* made live again by reconnect and still has its backlog queued
C5_Witness ==
    /\ resp.op = "reconnect" /\ resp.status = HTTP_200_OK
    /\ resp.name \in users
    /\ Queue(resp.name) # <<>>
    /\ \E v \in Names \ {resp.name} : Contains(Stream(v), LeftNotice(resp.name))

\* C6: no step other than a call of get_messages(u) removes or reorders what
\* is queued for u: every other step leaves u's queue as it is or appends to
\* it; so register of a name that is not live keeps what is queued for it.
C6_OnlyDrainRemoves ==
    [][\A u \in DOMAIN clients : IsPrefix(clients[u], clients'[u]) \/ Drains(u)]_vars

\* C7: every envelope a broadcast appended to a queue is either still queued
\* there or has been returned by get_messages, and exactly once in all.
C7_EveryEnvelopeDrainedOnce ==
    \A b \in DOMAIN completed : \A u \in completed[b].to :
        Cardinality(Indices(delivered[u], b)) + Cardinality(Indices(Queue(u), b)) = 1

\* C8: the listing of the live set holds each name once; get_messages for a
\* name that was never registered returns the empty list, answers without
\* error, creates no queue and changes nothing in the hub.
C8_Listing ==
    /\ \A i, j \in 1..Len(get_users) : get_users[i] = get_users[j] => i = j
    /\ {get_users[i] : i \in 1..Len(get_users)} = users

C8_Steps ==
    \A u \in Names :
        (Drains(u) /\ u \notin DOMAIN clients)
            => /\ resp' = Response("drain", u, HTTP_200_OK, <<>>)
               /\ u \notin DOMAIN clients'
               /\ hub' = hub

C8_UnknownDrainIsEmpty == []C8_Listing /\ [][C8_Steps]_vars

\* get_messages has just answered for a name that has no queue, while another
\* name is live
C8_Witness ==
    /\ resp.op = "drain" /\ resp.name \notin DOMAIN clients
    /\ users # {}

\* C9: the locked block of unregister takes a live name out of users and out
\* of waiting_users, keeps every other waiter and every queue; no later step
\* of the handler touches the queue of the name; for a name that is not live
\* the handler answers success at once and changes nothing in the hub.
C9_Steps ==
    \A t \in Threads :
        /\ (th[t].pc = "unreg" /\ Steps(t)) =>
              IF th[t].name \in users
              THEN /\ users' = users \ {th[t].name}
                   /\ DOMAIN waiting_users' = DOMAIN waiting_users \ {th[t].name}
                   /\ \A w \in DOMAIN waiting_users' :
                         waiting_users'[w] = waiting_users[w]
                   /\ clients' = clients
              ELSE /\ hub' = hub
                   /\ resp' = Response("unregister", th[t].name, HTTP_200_OK, <<>>)
        /\ (th[t].op = "unregister" /\ Steps(t)) =>
              get_messages(clients', th[t].name) = Queue(th[t].name)

C9_UnregisterEffect == [][C9_Steps]_vars

\* a participant that had announced it was waiting has left: it is neither
\* live nor waiting, and the notice is still in its queue
C9_Witness ==
    /\ resp.op = "unregister" /\ resp.status = HTTP_200_OK
    /\ resp.name \notin users
    /\ resp.name \notin DOMAIN waiting_users
    /\ Contains(Queue(resp.name), WaitingNotice(resp.name))

\* C10
NeedsLiveName == {"send", "talking_stick", "check_event"}

\* the step refuses a request made for a name that is not live: the request
\* is answered on arrival, or the user check of thread t finds the name missing
RefusesNotLive(t) ==
    \/ th' = th /\ resp'.op \in NeedsLiveName /\ resp'.name \notin users
    \/ th[t].pc = "chk_user" /\ Steps(t) /\ th[t].name \notin users

\* C10, as claimed: send, talking_stick and check_event for a name that is not
\* live answer 404 and leave the hub as it is.
C10_NotLiveIsNotFound ==
    [][\A t \in Threads :
          RefusesNotLive(t) => resp'.status = HTTP_404_NOT_FOUND /\ hub' = hub]_vars

\* C10, amended: they answer 404 while the hub is running and 404 or 503 once
\* it has been stopped, and leave the hub as it is.
C10_NotLiveIsRefused ==
    [][\A t \in Threads :
          RefusesNotLive(t) =>
             /\ resp'.status \in {HTTP_404_NOT_FOUND, HTTP_503_SERVICE_UNAVAILABLE}
             /\ running => resp'.status = HTTP_404_NOT_FOUND
             /\ hub' = hub]_vars

\* a request for a name that is not live has just been answered 404 while
\* another name is live and has mail
C10_Witness ==
    /\ resp.op \in NeedsLiveName /\ resp.status = HTTP_404_NOT_FOUND
    /\ resp.name \notin users
    /\ \E v \in users : Queue(v) # <<>>

\* C11: opening /events for a name that is not live while the hub is running
\* makes the name live, gives it a queue, and the event stream starts its loop.
C11_OpenAutoRegisters ==
    [][\A u \in Names :
          (sse[u].pc = "none" /\ sse'[u].pc # "none" /\ u \notin users /\ running)
             => /\ u \in users'
                /\ u \in DOMAIN clients'
                /\ sse'[u].pc = "loop"]_vars

\* C12: the locked block of reconnect, for a name that has no queue and is not
\* live, answers success and leaves the name live with an empty queue; for a
\* name that is live it answers success and changes nothing in the hub.
C12_ReconnectActsAsRegister ==
    [][\A t \in Threads :
          (th[t].pc = "rc" /\ Steps(t)) =>
             /\ (th[t].name \notin DOMAIN clients /\ th[t].name \notin users)
                   => /\ resp' = Response("reconnect", th[t].name, HTTP_200_OK, <<>>)
                      /\ users' = users \cup {th[t].name}
                      /\ th[t].name \in DOMAIN clients'
                      /\ get_messages(clients', th[t].name) = <<>>
             /\ th[t].name \in users
                   => /\ resp' = Response("reconnect", th[t].name, HTTP_200_OK, <<>>)
                      /\ hub' = hub]_vars

\* C13: whatever an event stream has taken out of the queue with get_messages
\* it yields, whole and in order, in the data frame of the same turn of its
\* loop.
C13_DrainedIsFramed ==
    [][\A u \in Names :
          (sse[u].pc = "emit" /\ sse'[u] # sse[u] /\ sse[u].messages # <<>>)
             => resp' = Response("data", u, HTTP_200_OK, sse[u].messages)]_vars

\* the event stream of u is past its opening and has not ended
Streaming(u) == sse[u].pc \in {"loop", "check", "get", "emit"}

\* C14: an event stream that is running when the hub's running flag is cleared
\* comes to its end.
C14_StreamsEndAtShutdown ==
    \A u \in Names : (Streaming(u) /\ ~running) ~> (sse[u].pc = "closed")

\* C15: an event stream whose last IdleBound turns all found the queue empty
\* has ended.
C15_IdleStreamEnds ==
    \A u \in Names : Streaming(u) => sse[u].idle < IdleBound

\* C16: when an event stream ends while the hub is running, its name is not
\* live afterwards and every queue is as it was.
C16_CloseRemovesFromUsers ==
    [][\A u \in Names :
          (Streaming(u) /\ sse'[u].pc = "closed" /\ running)
             => u \notin users' /\ clients' = clients]_vars

\* where the shutdown message stands in a sequence
ShutdownIndices(seq) ==
    {i \in 1..Len(seq) : seq[i].content = "Server shutting down..."}

\* C17: once stop has returned, every name that has a queue, live at the
\* shutdown or not, has the shutdown message in it exactly once.
C17_ShutdownMessageInEveryQueue ==
    stop.pc = "done" =>
        \A u \in DOMAIN clients : Cardinality(ShutdownIndices(Queue(u))) = 1

\* C18: once stop has returned, every queue is empty.
C18_QueuesEmptyAfterStop ==
    stop.pc = "done" => \A u \in DOMAIN clients : Queue(u) = <<>>

\* C19: once stop has returned, users is empty.
C19_NobodyLiveAfterStop ==
    stop.pc = "done" => users = {}

\* C20: the shutdown message is the last envelope of every queue it is in.
C20_ShutdownMessageIsLast ==
    \A u \in DOMAIN clients : \A i \in ShutdownIndices(Queue(u)) : i = Len(Queue(u))

\* where the reminders about u that were stamped after since stand in the
\* queue of v
RemindersSince(u, v, since) ==
    {i \in 1..Len(Queue(v)) :
        /\ Queue(v)[i].sender = "Server"
        /\ Queue(v)[i].content = StillWaitingNotice(u)
        /\ Queue(v)[i].timestamp > since}

\* check_waiting_users has gone through its copy and is about to sleep
TurnDone(t) == th[t].op = "remind" /\ th[t].pc = "r_next" /\ th[t].due = {}

C22_WritesHoldTheLock ==
    [][(clients' # clients \/ users' # users \/ waiting_users' # waiting_users)
          => lock = "free"]_vars

\* the messages the last call of the object handed to POST /send
Sends(c) ==
    LET IsSend(r) == r.path = "/send"
        requests == SelectSeq(c.posted, IsSend)
    IN  [i \in 1..Len(requests) |-> requests[i].message]

Blank(s) == \A i \in 1..Len(s) : SubSeq(s, i, i) \in Whitespace

\* t is s without the white space at its two ends
Trimmed(s, t) ==
    IF Blank(s) THEN t = ""
    ELSE /\ SubSeq(t, 1, 1) \notin Whitespace
         /\ SubSeq(t, Len(t), Len(t)) \notin Whitespace
         /\ \E i \in 1..(Len(s) - Len(t) + 1) :
                /\ SubSeq(s, i, i + Len(t) - 1) = t
                /\ Blank(SubSeq(s, 1, i - 1))
                /\ Blank(SubSeq(s, i + Len(t), Len(s)))

TruncationNotice(segments) ==
    "[system] msg truncated: current draft suffix: '"
        \o Suffix(strip(join("", segments)), PreviewLength) \o "'"

\* C24: with the talking stick held, append of a text longer than
\* max_append_length adds its first max_append_length characters as one segment
\* and returns a truncation notice that shows the end of the draft; append of a
\* text that is not longer adds the text as one segment and returns no such notice
C24_AppendTruncatesAndTells ==
    [][(room'.call = "append" /\ room.has_talking_stick)
          => IF Len(room'.text) > max_append_length
             THEN /\ room'.draft_segments =
                         Append(room.draft_segments,
                                SubSeq(room'.text, 1, max_append_length))
                  /\ IsIn(TruncationNotice(room'.draft_segments), room'.returned)
             ELSE /\ room'.draft_segments = Append(room.draft_segments, room'.text)
                  /\ ~IsIn("msg truncated", room'.returned)]_vars

\* C25: when push returns the talking stick is released and the draft is empty,
\* whether the draft was empty, the hub accepted the message, the hub rejected
\* it or the request failed; with an empty draft nothing is sent
C25_PushReleasesAlways ==
    [][room'.call = "push"
          => /\ ~room'.has_talking_stick
             /\ room'.draft_segments = <<>>
             /\ (room.draft_segments = <<>> => Sends(room') = <<>>)]_vars

\* a push whose request failed has returned
C25_Witness ==
    /\ room.call = "push"
    /\ room.answer = "failed"
    /\ Len(Sends(room)) = 1
    /\ ~room.has_talking_stick
    /\ room.draft_segments = <<>>

\* C26: every append made without the talking stick leaves the draft and the
\* flag as they were and returns the notice that the stick must be claimed
\* first, the first time and every later time
C26_AppendWithoutStickTells ==
    [][(room'.call = "append" /\ ~room.has_talking_stick)
          => /\ room'.draft_segments = room.draft_segments
             /\ room'.has_talking_stick = room.has_talking_stick
             /\ IsIn(MustClaim, room'.returned)]_vars

\* the last call of the object asked the hub to announce its claim
AskedToAnnounce(c) ==
    \E i \in 1..Len(c.posted) : c.posted[i] = Request("/talking_stick", "")

\* C27, as stated: when talking_stick returns the draft is empty and the
\* talking stick is held, whatever they were before, and the hub has been asked
\* to announce the claim
C27_ClaimTakesStick ==
    [][room'.call = "talking_stick"
          => /\ room'.draft_segments = <<>>
             /\ room'.has_talking_stick
             /\ AskedToAnnounce(room')]_vars

\* C27, amended: when talking_stick returns the draft is empty and the hub has
\* been asked to announce the claim; the talking stick is held if the hub
\* accepted the request, and is as it was before the call if the hub rejected
\* it or the request failed
C27_ClaimTakesStickIfAccepted ==
    [][room'.call = "talking_stick"
          => /\ room'.draft_segments = <<>>
             /\ AskedToAnnounce(room')
             /\ room'.has_talking_stick =
                    IF room'.answer = "ok" THEN TRUE ELSE room.has_talking_stick]_vars

\* a claim the hub rejected has returned without the talking stick
C27_Witness ==
    /\ room.call = "talking_stick"
    /\ room.answer = "rejected"
    /\ AskedToAnnounce(room)
    /\ ~room.has_talking_stick
    /\ room.draft_segments = <<>>

\* C28: the hub excludes nobody, so two participants may both hold the talking
\* stick and both publish; the messages of two different senders then stand in
\* every mailbox in the order in which the hub received them, which is the
\* order of their stamps
C28_PushesLandInReceiptOrder ==
    \A u \in Names : \A i, j \in 1..Len(Stream(u)) :
        (/\ i < j
         /\ Stream(u)[i].sender \in Names
         /\ Stream(u)[j].sender \in Names
         /\ Stream(u)[i].sender # Stream(u)[j].sender)
           => Stream(u)[i].timestamp < Stream(u)[j].timestamp

\* the step is the listener taking an envelope
Hears == room'.call = "_sse_listener"

\* C29: the listener never enqueues an envelope whose sender is the client's
\* own name, it drops the Server's waiting notice that names the client, and
\* it enqueues the Server's waiting notice that names another participant
C29_ListenerFilters ==
    [][Hears
          => /\ room'.sender = self_username => room'.queue = room.queue
             /\ (room'.sender = "Server" /\ room'.text = WaitingNotice(self_username))
                   => room'.queue = room.queue
             /\ \A p \in Peers :
                   (room'.sender = "Server" /\ room'.text = WaitingNotice(p))
                      => room'.queue = Append(room.queue, "[Server]: " \o room'.text)]_vars

\* C30: the listener enqueues an envelope only if the key of its sender and
\* content is not yet in the de-duplication set, and the key is added (the set
\* being cleared when that takes it past its limit); so for every sender, the
\* Server too
C30_ListenerEnqueuesUnseenOnly ==
    [][(Hears /\ room'.queue # room.queue)
          => /\ (room'.sender \o ":" \o room'.text) \notin room.processed_messages
             /\ \/ (room'.sender \o ":" \o room'.text) \in room'.processed_messages
                \/ room'.processed_messages = {}]_vars

\* C31: the de-duplication set never holds more than ProcessedLimit + 1 keys,
\* whichever operation put the last key in
C31_KeySetBounded == Cardinality(room.processed_messages) <= ProcessedLimit + 1

\* the number of announcements the call of check has sent to the hub so far
Announcements(c) == c.check.announced

C33_ReconnectionLosesNothing ==
    \A i \in 1..Len(room.channel.lost) :
        room.channel.lost[i].timestamp <= room.channel.since

\* the last call asked nothing of the hub beyond the registration and the
\* listing of a client that was not connected yet
OnlyConnects(before, after) ==
    /\ before.running => after.posted = <<>>
    /\ \A i \in 1..Len(after.posted) : after.posted[i].path \in {"/register", "/users"}

\* C34: undo takes the last segment off the draft, leaves the segments before
\* it and the talking stick as they were, and changes nothing when the draft is
\* empty; reset leaves the draft empty and the talking stick released whatever
\* they were; neither asks the hub to send or announce anything
C34_UndoAndReset ==
    [][(room'.call = "undo"
           => (/\ room'.draft_segments =
                     IF room.draft_segments = <<>> THEN <<>>
                     ELSE SubSeq(room.draft_segments, 1, Len(room.draft_segments) - 1)
               /\ room'.has_talking_stick = room.has_talking_stick
               /\ OnlyConnects(room, room')))
       /\ (room'.call = "reset"
              => (/\ room'.draft_segments = <<>>
                  /\ ~room'.has_talking_stick
                  /\ OnlyConnects(room, room')))]_vars

\* an undo has taken the second of two segments off the draft
C34_Witness ==
    /\ room.call = "undo"
    /\ Len(room.draft_segments) = 1
    /\ room.has_talking_stick
    /\ room.posted = <<>>

\* C35: a draft that is not empty is the draft of a client that holds the
\* talking stick, after any calls and any answers of the hub
C35_DraftImpliesStick ==
    room.draft_segments # <<>> => room.has_talking_stick

\* the client is composing after a claim that the hub refused and a later one
\* that it accepted: an undo has left one segment
C35_Witness ==
    /\ room.call = "undo"
    /\ room.draft_segments # <<>>
    /\ room.has_talking_stick
    /\ \E k \in room.processed_messages : IsIn("Failed to claim talking stick", k)

\* C36: in every state every name in waiting_users is in users:
\* mark_user_waiting leaves out a name that is not live, unregister_user and
\* stop take a name out of both.
C36_WaitersAreLive == DOMAIN waiting_users \subseteq users

\* check_event has just answered success for a name that was no longer live
\* when mark_user_waiting ran: its notice went out, it is not waiting
C36_Witness ==
    /\ resp.op = "check_event" /\ resp.status = HTTP_200_OK
    /\ resp.name \notin users
    /\ resp.name \notin DOMAIN waiting_users
    /\ \E u \in Names : Contains(Queue(u), WaitingNotice(resp.name))

\* C37: no step of a broadcast appends to the queue of a name that is not in
\* users at that step, so a name unregistered after the snapshot of users is
\* skipped.
C37_NoAppendForNotLive ==
    [][\A t \in Threads :
          (th[t].pc = "b_append" /\ Steps(t))
             => \A u \in DOMAIN clients :
                   get_messages(clients', u) # get_messages(clients, u)
                      => u \in users]_vars

\* C38: a name leaves waiting_users only in the lock region of a broadcast
\* whose sender is not "Server", in its own unregister_user, or in stop; no
\* broadcast from "Server" takes a name out.
C38_ServerBroadcastsKeepWaiting ==
    [][\A u \in DOMAIN waiting_users \ DOMAIN waiting_users' :
          \/ \E t \in Threads : /\ th[t].pc = "b_snap" /\ Steps(t)
                                /\ th[t].msg.sender # "Server"
          \/ \E t \in Threads : /\ th[t].pc = "unreg" /\ Steps(t)
                                /\ th[t].name = u
          \/ stop.pc = "lock" /\ stop'.pc # "lock"]_vars

\* a claim of the talking stick has been announced to a participant that was
\* told before that someone waits, and that someone is still waiting
C38_Witness ==
    /\ resp.op = "talking_stick" /\ resp.status = HTTP_200_OK
    /\ \E w \in DOMAIN waiting_users : \E u \in users :
          \E i, j \in 1..Len(Queue(u)) :
             /\ i < j
             /\ Queue(u)[i].content = WaitingNotice(w)
             /\ Queue(u)[j].content = ClaimNotice(resp.name)

\* C39
\* where the notice that name has left, stamped ts, stands in a sequence
LeaveNotices(seq, name, ts) ==
    {i \in 1..Len(seq) : seq[i] = Envelope("Server", LeftNotice(name), ts)}

C39_Steps ==
    \A t \in Threads :
        /\ (th[t].op = "unregister" /\ Steps(t)) =>
              \A u \in DOMAIN clients :
                 \/ get_messages(clients', u) = get_messages(clients, u)
                 \/ get_messages(clients', u) =
                       Append(get_messages(clients, u),
                              Envelope("Server", LeftNotice(th[t].name),
                                       th[t].msg.timestamp))
        /\ (th[t].op = "unregister" /\ Steps(t) /\ resp'.op = "unregister") =>
              IF th[t].pc = "unreg"
              THEN clients' = clients
              ELSE \A u \in Names :
                      Cardinality(LeaveNotices(delivered'[u] \o get_messages(clients', u),
                                               th[t].name, th[t].msg.timestamp))
                         = IF u \in users /\ u # th[t].name THEN 1 ELSE 0

\* C39: when unregister of a live name returns, every name still in users has
\* the envelope "<name> has left the chat" from "Server" once in what it has
\* drained and what it has queued, and no other name has it, the one that
\* left included; the call appends nothing else; unregister of a name that is
\* not live appends nothing.
C39_LeaveNotice == [][C39_Steps]_vars

\* unregister has just returned: a live participant has the notice, the one
\* that left has a queue without it
C39_Witness ==
    /\ resp.op = "unregister" /\ resp.status = HTTP_200_OK
    /\ resp.name \in DOMAIN clients
    /\ ~Contains(Stream(resp.name), LeftNotice(resp.name))
    /\ \E u \in users : Contains(Stream(u), LeftNotice(resp.name))

\* C40: no step of check_waiting_users adds a name to waiting_users; a name
\* that is absent when the loop comes to reset its wait stays absent.
C40_ReminderNeverAdds ==
    [][\A t \in Threads :
          ((th[t].op = "remind" \/ th'[t].op = "remind") /\ Steps(t))
             => DOMAIN waiting_users' \subseteq DOMAIN waiting_users]_vars

\* the loop has reminded of u and gone past the reset of its wait; u was in the
\* loop's copy and left while the reminder was on its way (the reminder, the
\* newest envelope, went to the other participant and not to u, whose
\* unregister is still being served), and u is not waiting
C40_Witness ==
    \E t \in Threads : \E u \in DOMAIN th[t].waiting :
        /\ th[t].op = "remind" /\ th[t].pc = "r_next"
        /\ u \in Due(th[t].waiting, th[t].current_time) \ th[t].due
        /\ running /\ stop.pc = "idle"
        /\ \E s \in Threads : /\ th[s].op = "unregister" /\ th[s].pc = "b_check"
                              /\ th[s].name = u
        /\ u \in DOMAIN clients
        /\ ~Contains(Queue(u), StillWaitingNotice(u))
        /\ \E v \in users : \E i \in 1..Len(Queue(v)) :
              Queue(v)[i] = Envelope("Server", StillWaitingNotice(u), clock)
        /\ u \notin DOMAIN waiting_users

====
